---- MODULE Spec2Model ----
(***************************************************************************)
(* Model of gptools.kernel.matern.MaternKernel: the kernel value           *)
(* evaluator (_compute_k), the outer-derivative evaluator (_compute_dk_dy),*)
(* the inner-derivative evaluator (_compute_dy_dtau), its per-partition    *)
(* term and the anisotropic-distance derivative primitive                  *)
(* (_compute_dT_dtau).                                                     *)
(*                                                                         *)
(* Real numbers are modelled exactly.  A value is a finite formal sum of   *)
(* monomials  q * sqrt(rad) * sqrt(pi)^rp * sym  with q a reduced          *)
(* rational, rad a square-free positive integer and sym either 1 or an     *)
(* uninterpreted transcendental factor (a Bessel-K term, a result of       *)
(* mpmath.diff).  IEEE infinities and NaN are two further values.          *)
(* Floating-point rounding is outside the model.                           *)
(***************************************************************************)
EXTENDS Integers, Sequences, FiniteSets

(***************************************************************************)
(* Bounds of the model.                                                    *)
(***************************************************************************)
MaxRows == 2
MaxN == 4
MaxOrder == 2
MaxBlock == 3
MaxNu2 == 5

\* Number of input dimensions (the constructor's num_dim).
NumDim == 2
\* Positions in the hyperparameter vector (1-based here, 0-based in Python).
NuIndex == 1
LOffset == 2

\* Sample difference vectors (the origin and a generic point) and a sample
\* length-scale vector with distinct scales.
TauRows == {<<0, 0>>, <<1, -2>>}
LVecs == {<<1, 2>>}

(***************************************************************************)
(* Exact rational arithmetic: <<numerator, denominator>>, denominator > 0, *)
(* in lowest terms.                                                        *)
(***************************************************************************)
Abs(i) == IF i < 0 THEN -i ELSE i

RECURSIVE GCD(_, _)
GCD(a, b) == IF b = 0 THEN a ELSE GCD(b, a % b)

RNorm(n, d) ==
    LET s == IF d < 0 THEN -1 ELSE 1
        g == GCD(Abs(n), Abs(d))
    IN  IF n = 0 THEN <<0, 1>> ELSE <<(s * n) \div g, (s * d) \div g>>

R0 == <<0, 1>>
R1 == <<1, 1>>
RInt(i) == <<i, 1>>
RAdd(a, b) == RNorm(a[1] * b[2] + b[1] * a[2], a[2] * b[2])
RNeg(a) == <<-a[1], a[2]>>
RSub(a, b) == RAdd(a, RNeg(b))
RMul(a, b) == RNorm(a[1] * b[1], a[2] * b[2])
RInv(a) == RNorm(a[2], a[1])
RDiv(a, b) == RMul(a, RInv(b))
RLess(a, b) == a[1] * b[2] < b[1] * a[2]
RIsInt(a) == a[2] = 1

\* a^k for an integer k >= 0.
RECURSIVE RPowNat(_, _)
RPowNat(a, k) == IF k = 0 THEN R1 ELSE RMul(a, RPowNat(a, k - 1))

\* a^k for any integer k, a /= 0 when k < 0.
RPow(a, k) == IF k >= 0 THEN RPowNat(a, k) ELSE RPowNat(RInv(a), -k)

(***************************************************************************)
(* Values.  A monomial is q * sqrt(rad) * sqrt(pi)^rp * sym.  The symbolic *)
(* factors are                                                             *)
(*   one          1                                                        *)
(*   ypow_kvp     y^ypow * (d/dy)^ord[1] K_nu(y), with arg = y /= 0        *)
(*   mpdiff_core  mpmath.chop(mpmath.diff(x^nu K_nu(x), 0, n = ord[1],     *)
(*                singular = True, direction = 1))                         *)
(*   mpdiff_y     mpmath.chop(mpmath.diff(y(tau), origin, n = ord,         *)
(*                singular = True, direction = 1)), ls the length scales   *)
(*   inf, nan     the IEEE values                                          *)
(* A value is a set of monomials with pairwise distinct (rad, rp, sym) and *)
(* non-zero q; the empty set is 0.                                         *)
(***************************************************************************)
Sym(kind, nu, arg, ypow, ord, ls) ==
    [kind |-> kind, nu |-> nu, arg |-> arg, ypow |-> ypow, ord |-> ord, ls |-> ls]

SymOne == Sym("one", R0, {}, R0, <<>>, <<>>)
SymInf == Sym("inf", R0, {}, R0, <<>>, <<>>)
SymNaN == Sym("nan", R0, {}, R0, <<>>, <<>>)

Mono(q, rad, rp, sym) == [q |-> q, rad |-> rad, rp |-> rp, sym |-> sym]

VZero == {}
VNum(q) == IF q = R0 THEN {} ELSE {Mono(q, 1, 0, SymOne)}
VOne == VNum(R1)
VInf == {Mono(R1, 1, 0, SymInf)}
VNaN == {Mono(R1, 1, 0, SymNaN)}
VSym(sym) == {Mono(R1, 1, 0, sym)}
VSqrtPi == {Mono(R1, 1, 1, SymOne)}

IsNaN(v) == \E m \in v : m.sym.kind = "nan"
IsInf(v) == \E m \in v : m.sym.kind = "inf"
IsFinite(v) == ~IsNaN(v) /\ ~IsInf(v)

Key(m) == [rad |-> m.rad, rp |-> m.rp, sym |-> m.sym]
Keys(v) == {Key(m) : m \in v}
Coef(v, k) == IF k \in Keys(v) THEN (CHOOSE m \in v : Key(m) = k).q ELSE R0

\* Sum of two values (IEEE: NaN absorbs, then infinity).
VAdd(a, b) ==
    IF a = VZero THEN b
    ELSE IF b = VZero THEN a
    ELSE IF IsNaN(a) \/ IsNaN(b) THEN VNaN
    ELSE IF IsInf(a) \/ IsInf(b) THEN VInf
    ELSE {Mono(RAdd(Coef(a, k), Coef(b, k)), k.rad, k.rp, k.sym) :
            k \in {kk \in Keys(a) \cup Keys(b) : RAdd(Coef(a, kk), Coef(b, kk)) # R0}}

\* Product of two finite monomials, at most one of them symbolic:
\* sqrt(r1) * sqrt(r2) = g * sqrt(r1 * r2 / g^2), g = gcd(r1, r2), for square-free r1, r2.
MonoMul(x, y) ==
    LET g == GCD(x.rad, y.rad)
    IN  Mono(RMul(RMul(x.q, y.q), RInt(g)),
             (x.rad * y.rad) \div (g * g),
             x.rp + y.rp,
             IF x.sym = SymOne THEN y.sym ELSE x.sym)

VScale(m, v) == {MonoMul(m, y) : y \in v}

RECURSIVE VMulFinite(_, _)
VMulFinite(a, b) ==
    IF a = {} THEN {}
    ELSE LET m == CHOOSE x \in a : TRUE
         IN  IF a = {m} THEN VScale(m, b)
             ELSE VAdd(VScale(m, b), VMulFinite(a \ {m}, b))

\* Product of two values (IEEE: NaN absorbs, 0 * inf = NaN).
VMul(a, b) ==
    IF IsNaN(a) \/ IsNaN(b) THEN VNaN
    ELSE IF IsInf(a) \/ IsInf(b) THEN (IF a = VZero \/ b = VZero THEN VNaN ELSE VInf)
    ELSE VMulFinite(a, b)

\* 1 / (q * sqrt(rad) * sqrt(pi)^rp) = (1 / (q * rad)) * sqrt(rad) * sqrt(pi)^(-rp).
MonoInv(m) == Mono(RInv(RMul(m.q, RInt(m.rad))), m.rad, -m.rp, SymOne)

\* a / b for a value b that is a single non-symbolic monomial, zero or infinite.
VDiv(a, b) ==
    IF IsNaN(a) \/ IsNaN(b) THEN VNaN
    ELSE IF IsInf(b) THEN (IF IsInf(a) THEN VNaN ELSE VZero)
    ELSE IF b = VZero THEN (IF a = VZero THEN VNaN ELSE VInf)
    ELSE VMul(a, {MonoInv(CHOOSE m \in b : TRUE)})

\* Largest s with s^2 dividing m (m > 0).
SquarePart(m) ==
    LET S == {s \in 1..m : s * s <= m /\ m % (s * s) = 0}
    IN  CHOOSE s \in S : \A t \in S : t <= s

\* scipy.sqrt of a rational r >= 0: sqrt(p/q) = (s/q) * sqrt(p*q / s^2).
VSqrt(r) ==
    IF r = R0 THEN VZero
    ELSE IF r[1] < 0 THEN VNaN
    ELSE LET m == r[1] * r[2]
             s == SquarePart(m)
         IN  {Mono(RNorm(s, r[2]), m \div (s * s), 0, SymOne)}

\* 2.0 ** e for a rational e with denominator 1 or 2.
Pow2(e) ==
    LET e2 == e[1] * (2 \div e[2])
        h == (e2 - (e2 % 2)) \div 2
    IN  IF e2 % 2 = 0 THEN VNum(RPow(RInt(2), h))
        ELSE {Mono(RPow(RInt(2), h), 2, 0, SymOne)}

\* (-1.0) ** m for an integer m.
PowMinusOne(m) == IF m % 2 = 0 THEN VOne ELSE VNum(RInt(-1))

\* scipy.special.gamma at a rational with denominator 1 or 2.
RECURSIVE Gamma(_)
Gamma(x) ==
    IF x = R1 THEN VOne
    ELSE IF x = <<1, 2>> THEN VSqrtPi
    ELSE IF RLess(R0, x) THEN VMul(VNum(RSub(x, R1)), Gamma(RSub(x, R1)))
    ELSE IF RIsInt(x) THEN VInf
    ELSE VDiv(Gamma(RAdd(x, R1)), VNum(x))

\* scipy.misc.factorial at a non-negative integer.
RECURSIVE Factorial(_)
Factorial(k) == IF k = 0 THEN 1 ELSE k * Factorial(k - 1)

\* scipy.special.binom(n, k) for integers 0 <= k <= n.
Binom(n, k) == Factorial(n) \div (Factorial(k) * Factorial(n - k))

\* scipy.special.poch(x, k) = x (x + 1) ... (x + k - 1) for an integer k >= 0.
RECURSIVE Poch(_, _)
Poch(x, k) == IF k = 0 THEN R1 ELSE RMul(Poch(x, k - 1), RAdd(x, RInt(k - 1)))

(***************************************************************************)
(* Arrays (numpy): 1-based sequences here, boolean-mask selection and      *)
(* assignment as numpy does them.                                          *)
(***************************************************************************)
\* Python's seq[i] for a 0-based index i.
At(seq, i) == seq[i + 1]

\* The array holding the entries f[1], ..., f[Len(f)], evaluated once.
Array(f) == SubSeq(f, 1, Len(f))

\* Number of True entries among the first i entries of a mask.
RECURSIVE Rank(_, _)
Rank(mask, i) == IF i = 0 THEN 0 ELSE Rank(mask, i - 1) + (IF mask[i] THEN 1 ELSE 0)

\* arr[mask]: the entries at the True positions, in order.
RECURSIVE Compress(_, _)
Compress(arr, mask) ==
    IF Len(arr) = 0 THEN <<>>
    ELSE LET k == Len(arr)
             front == Compress(SubSeq(arr, 1, k - 1), SubSeq(mask, 1, k - 1))
         IN  IF mask[k] THEN Append(front, arr[k]) ELSE front

\* Faulty variant of Scatter: the values are written to the leading positions.
ScatterMisaligned(arr, mask, vals) ==
    Array([i \in 1..Len(arr) |-> IF i <= Len(vals) THEN vals[i] ELSE arr[i]])

\* arr[mask] = vals, vals an array with one entry per True position.
Scatter(arr, mask, vals) ==
    Array([i \in 1..Len(arr) |-> IF mask[i] THEN vals[Rank(mask, i)] ELSE arr[i]])

\* arr[mask] = v for a scalar v.
Fill(arr, mask, v) == Array([i \in 1..Len(arr) |-> IF mask[i] THEN v ELSE arr[i]])

\* ~mask
Not(mask) == Array([i \in 1..Len(mask) |-> ~mask[i]])

\* scipy.zeros / scipy.zeros_like / scipy.ones of length k.
Zeros(k) == Array([i \in 1..k |-> VZero])
Ones(k) == Array([i \in 1..k |-> VOne])

(***************************************************************************)
(* Hyperparameters: params = <<sigma, nu, l_1, ..., l_NumDim>>, rationals. *)
(***************************************************************************)
\* The nu property.
Nu(P) == At(P, NuIndex)

\* ChainRuleKernel._compute_r2l2: sum_i tau_i^2 / l_i^2, one value per row.
RECURSIVE R2L2Row(_, _, _)
R2L2Row(P, row, d) ==
    IF d = 0 THEN R0
    ELSE RAdd(R2L2Row(P, row, d - 1),
              RDiv(RInt(row[d] * row[d]), RMul(At(P, LOffset + d - 1), At(P, LOffset + d - 1))))

_compute_r2l2(P, tau) == Array([i \in 1..Len(tau) |-> R2L2Row(P, tau[i], NumDim)])

\* y = scipy.sqrt(2.0 * nu * r2l2)
_compute_y(P, tau) ==
    LET r2l2 == _compute_r2l2(P, tau)
    IN  Array([i \in 1..Len(tau) |-> VSqrt(RMul(RMul(RInt(2), Nu(P)), r2l2[i]))])

\* y ** e * scipy.special.kvp(nu, y, n = ord) at one point y.  At y /= 0 the
\* product is kept symbolic.  At y = 0, K_nu and its derivatives are infinite and
\* 0 ** e is 0, 1 or inf for e > 0, e = 0, e < 0, so the product is NaN or inf.
YPowKvp(y, e, nu, ord) ==
    IF y = VZero THEN (IF RLess(R0, e) THEN VNaN ELSE VInf)
    ELSE VSym(Sym("ypow_kvp", nu, y, e, <<ord>>, <<>>))

\* 2.0**(1 - self.nu) / scipy.special.gamma(self.nu)
OuterScale(nu) == VDiv(Pow2(RSub(R1, nu)), Gamma(nu))

(***************************************************************************)
(* Warnings.  Under the interpreter's default filters a warning is shown   *)
(* the first time its text is issued from a line of the module and its    *)
(* text is recorded in the module's warning registry; later calls find it  *)
(* there and show nothing.  Each of the two texts is issued from one line. *)
(***************************************************************************)
Warn(reg, text) ==
    [shown |-> IF text \in reg THEN <<>> ELSE <<"RuntimeWarning">>,
     reg |-> reg \cup {text}]

NoWarn(reg) == [shown |-> <<>>, reg |-> reg]

(***************************************************************************)
(* _compute_k                                                              *)
(***************************************************************************)
\* numpy's default floating-point error state warns when an element of a
\* multiplication is 0 * inf.  In line 92 the left factor
\* 2.0**(1 - nu) / gamma(nu) * y**nu is 0 and kv(nu, y) is inf at y = 0, nu > 0.
InvalidText == "invalid value encountered in multiply"
InvalidMultiply(y, nu) == \E i \in 1..Len(y) : y[i] = VZero /\ RLess(R0, nu)

\* Faulty variant of OverrideOrigin: the closed form is returned as computed.
NoOverride(k, r2l2) == k

\* k[r2l2 == 0] = 1

OverrideOrigin(k, r2l2) == Fill(k, Array([i \in 1..Len(r2l2) |-> r2l2[i] = R0]), VOne)

\* The evaluator: the returned array, the warnings shown and the warning registry
\* after the call.
_compute_k(reg, P, tau) ==
    LET r2l2 == _compute_r2l2(P, tau)
        y == _compute_y(P, tau)
        scale == OuterScale(Nu(P))
        k == Array([i \in 1..Len(tau) |-> VMul(scale, YPowKvp(y[i], Nu(P), Nu(P), 0))])
        warned == IF InvalidMultiply(y, Nu(P)) THEN Warn(reg, InvalidText)
                  ELSE NoWarn(reg)
    IN  [val |-> OverrideOrigin(k, r2l2), warn |-> warned.shown, reg |-> warned.reg]

(***************************************************************************)
(* _compute_dk_dy                                                          *)
(***************************************************************************)
\* Faulty variant of NonZeroIdxs: every row is taken as non-singular.
AllRowsMask(y) == Array([i \in 1..Len(y) |-> TRUE])

\* non_zero_idxs = (y != 0)

NonZeroIdxs(y) == Array([i \in 1..Len(y) |-> y[i] # VZero])

\* binom(n, k) * poch(1 - k + nu, k) * y ** (-k + nu) * kvp(nu, y, n = n - k)
LeibnizTerm(nu, n, k, y) ==
    VMul(VNum(RMul(RInt(Binom(n, k)), Poch(RAdd(RSub(R1, RInt(k)), nu), k))),
         YPowKvp(y, RAdd(RInt(-k), nu), nu, n - k))

\* The interpreters the module runs under.  The module is written for both
\* (from __future__ import division), but xrange is a builtin of Python 2 only.
Interpreters == {"python2", "python3"}

\* Name lookup of xrange at line 168: NameError where the builtin does not exist.
XRangeDefined(interp) == interp = "python2"

\* The passes k, k + 1, ..., n of the loop body:
\* dk_dy[non_zero_idxs] += ..., with ysel = y[non_zero_idxs].
RECURSIVE LeibnizPasses(_, _, _, _, _, _)
LeibnizPasses(dk_dy, ysel, mask, nu, n, k) ==
    IF k > n THEN dk_dy
    ELSE LET cur == Compress(dk_dy, mask)
             upd == Array([j \in 1..Len(ysel) |->
                             VAdd(cur[j], LeibnizTerm(nu, n, k, ysel[j]))])
         IN  LeibnizPasses(Scatter(dk_dy, mask, upd), ysel, mask, nu, n, k + 1)

\* for k in xrange(0, n + 1): ...
\* Evaluating xrange raises NameError before the first pass under Python 3.
LeibnizLoop(interp, dk_dy, ysel, mask, nu, n) ==
    IF XRangeDefined(interp)
    THEN [val |-> LeibnizPasses(dk_dy, ysel, mask, nu, n, 0), exc |-> "none"]
    ELSE [val |-> dk_dy, exc |-> "NameError"]

\* if n >= 2 * self.nu: warnings.warn(...)

WarnCond(nu, n) == ~RLess(RInt(n), RMul(RInt(2), nu))

\* warnings.warn("n >= 2*nu can yield inaccurate results.", RuntimeWarning)
WarningText == "n >= 2*nu can yield inaccurate results."

\* if n < 2.0 * self.nu:
ClosedFormCond(nu, n) == RLess(RInt(n), RMul(RInt(2), nu))

\* John Wright's expression for the n-th derivative of y^nu K_nu(y) at y = 0, n < 2 nu:
\* 0 for odd n, (-1)^m 2^(nu-1-n) Gamma(nu-m) n!/m! for n = 2 m.
SingularClosedForm(nu, n) ==
    IF n % 2 = 1 THEN VZero
    ELSE LET m == n \div 2
         IN  VDiv(VMul(VMul(VMul(PowMinusOne(m), Pow2(RSub(RSub(nu, R1), RInt(n)))),
                            Gamma(RSub(nu, RInt(m)))),
                       VNum(RInt(Factorial(n)))),
                  VNum(RInt(Factorial(m))))

\* mpmath.chop(mpmath.diff(lambda x: x**nu * besselk(nu, x), 0, n=n, singular=True, direction=1))
MpmathDiffCore(nu, n) == VSym(Sym("mpdiff_core", nu, {}, R0, <<n>>, <<>>))

\* The evaluator: the returned array, the warnings shown, the mpmath.diff calls
\* made, the exception raised and the warning registry after the call.  An
\* exception in the loop leaves the function before the warning and the branches.
_compute_dk_dy(interp, reg, P, y, n) ==
    LET nu == Nu(P)
        non_zero_idxs == NonZeroIdxs(y)
        looped == LeibnizLoop(interp, Zeros(Len(y)), Compress(y, non_zero_idxs),
                              non_zero_idxs, nu, n)
        warned == IF WarnCond(nu, n) THEN Warn(reg, WarningText) ELSE NoWarn(reg)
        closed == ClosedFormCond(nu, n)
        filled == IF closed
                  THEN Fill(looped.val, Not(non_zero_idxs), SingularClosedForm(nu, n))
                  ELSE Fill(looped.val, Not(non_zero_idxs), MpmathDiffCore(nu, n))
        scale == OuterScale(nu)
    IN  IF looped.exc # "none"
        THEN [val |-> <<>>, warn |-> <<>>, mp |-> <<>>, exc |-> looped.exc, reg |-> reg]
        ELSE [val |-> Array([i \in 1..Len(y) |-> VMul(filled[i], scale)]),
              warn |-> warned.shown,
              mp |-> IF closed THEN <<>> ELSE <<"mpdiff_core">>,
              exc |-> "none",
              reg |-> warned.reg]

(***************************************************************************)
(* _compute_dT_dtau: derivative of r2l2 = sum_i tau_i^2 / l_i^2 with       *)
(* respect to the dimensions named in the block b (0-based indices).       *)
(* The result is the array and the exception raised, if any.               *)
(***************************************************************************)
\* scipy.unique(b)
Unique(b) == {b[i] : i \in 1..Len(b)}

\* Faulty variant of _compute_dT_dtau: no test for mixed blocks, the first entry
\* of the block names the dimension.
_compute_dT_dtau_first(P, tau, b) ==
    IF Len(b) >= 3 THEN [val |-> Zeros(Len(tau)), exc |-> "none"]
    ELSE IF Len(b) = 0 THEN [val |-> <<>>, exc |-> "IndexError"]
    ELSE LET tau_idx == b[1]
             l2 == RMul(At(P, LOffset + tau_idx), At(P, LOffset + tau_idx))
         IN  IF Len(b) = 1
             THEN [val |-> Array([i \in 1..Len(tau) |->
                              VDiv(VMul(VNum(RInt(2)), VNum(RInt(At(tau[i], tau_idx)))),
                                   VNum(l2))]),
                   exc |-> "none"]
             ELSE [val |-> Array([i \in 1..Len(tau) |->
                              VMul(VDiv(VNum(RInt(2)), VNum(l2)), Ones(Len(tau))[i])]),
                   exc |-> "none"]

\* Faulty variant of _compute_dT_dtau: the length scales are read one position early.
_compute_dT_dtau_nu(P, tau, b) ==
    LET unique_d == Unique(b)
    IN  IF Len(b) >= 3 \/ Cardinality(unique_d) > 1
        THEN [val |-> Zeros(Len(tau)), exc |-> "none"]
        ELSE IF unique_d = {} THEN [val |-> <<>>, exc |-> "IndexError"]
        ELSE LET tau_idx == CHOOSE d \in unique_d : TRUE
                 l2 == RMul(At(P, NuIndex + tau_idx), At(P, NuIndex + tau_idx))
             IN  IF Len(b) = 1
                 THEN [val |-> Array([i \in 1..Len(tau) |->
                                  VDiv(VMul(VNum(RInt(2)), VNum(RInt(At(tau[i], tau_idx)))),
                                       VNum(l2))]),
                       exc |-> "none"]
                 ELSE [val |-> Array([i \in 1..Len(tau) |->
                                  VMul(VDiv(VNum(RInt(2)), VNum(l2)), Ones(Len(tau))[i])]),
                       exc |-> "none"]

_compute_dT_dtau(P, tau, b) ==
    LET unique_d == Unique(b)
    IN  IF Len(b) >= 3 \/ Cardinality(unique_d) > 1
        THEN [val |-> Zeros(Len(tau)), exc |-> "none"]
        ELSE IF unique_d = {} THEN [val |-> <<>>, exc |-> "IndexError"]
        ELSE LET tau_idx == CHOOSE d \in unique_d : TRUE
                 l2 == RMul(At(P, LOffset + tau_idx), At(P, LOffset + tau_idx))
             IN  IF Len(b) = 1
                 THEN [val |-> Array([i \in 1..Len(tau) |->
                                  VDiv(VMul(VNum(RInt(2)), VNum(RInt(At(tau[i], tau_idx)))),
                                       VNum(l2))]),
                       exc |-> "none"]
                 ELSE [val |-> Array([i \in 1..Len(tau) |->
                                  VMul(VDiv(VNum(RInt(2)), VNum(l2)), Ones(Len(tau))[i])]),
                       exc |-> "none"]

(***************************************************************************)
(* _compute_dy_dtau_on_partition: one term of Faa di Bruno's formula.      *)
(***************************************************************************)
\* (r2l2) ** (-n + 0.5)
R2L2Pow(r, n) ==
    IF r = R0 THEN (IF n >= 1 THEN VInf ELSE VZero)
    ELSE VMul(VNum(RPow(r, -n)), VSqrt(r))

\* for b in p: dy_dtau *= self._compute_dT_dtau(tau, b)   (from block j on)
RECURSIVE BlockLoop(_, _, _, _, _)
BlockLoop(dy_dtau, P, tau, p, j) ==
    IF j > Len(p) THEN [val |-> dy_dtau, exc |-> "none"]
    ELSE LET dT == _compute_dT_dtau(P, tau, p[j])
         IN  IF dT.exc # "none" THEN [val |-> <<>>, exc |-> dT.exc]
             ELSE BlockLoop(Array([i \in 1..Len(dy_dtau) |-> VMul(dy_dtau[i], dT.val[i])]),
                            P, tau, p, j + 1)

\* Faulty variant of _compute_dy_dtau_on_partition: n is the total order of the
\* partition's blocks, not their number.
RECURSIVE TotalOrder(_)
TotalOrder(p) == IF Len(p) = 0 THEN 0 ELSE Len(Head(p)) + TotalOrder(Tail(p))

_compute_dy_dtau_on_partition_order(P, tau, p, r2l2) ==
    LET n == TotalOrder(p)
        c == VMul(VSqrt(RMul(RInt(2), Nu(P))), VNum(Poch(RAdd(RInt(1 - n), <<1, 2>>), n)))
        dy_dtau == Array([i \in 1..Len(r2l2) |-> VMul(c, R2L2Pow(r2l2[i], n))])
    IN  BlockLoop(dy_dtau, P, tau, p, 1)

_compute_dy_dtau_on_partition(P, tau, p, r2l2) ==
    LET n == Len(p)
        c == VMul(VSqrt(RMul(RInt(2), Nu(P))), VNum(Poch(RAdd(RInt(1 - n), <<1, 2>>), n)))
        dy_dtau == Array([i \in 1..Len(r2l2) |-> VMul(c, R2L2Pow(r2l2[i], n))])
    IN  BlockLoop(dy_dtau, P, tau, p, 1)

(***************************************************************************)
(* gptools.utils.generate_set_partitions: every set partition of the       *)
(* positions of b exactly once, each block holding the entries of b at its *)
(* positions.                                                              *)
(***************************************************************************)
SetMin(S) == CHOOSE x \in S : \A z \in S : x <= z

RECURSIVE PartitionsOf(_)
PartitionsOf(S) ==
    IF S = {} THEN {{}}
    ELSE LET x == SetMin(S)
         IN  UNION {{{blk} \cup part : part \in PartitionsOf(S \ blk)} :
                       blk \in {T \cup {x} : T \in SUBSET (S \ {x})}}

\* The entries of b at the positions of a block, in position order.
RECURSIVE BlockEntries(_, _)
BlockEntries(b, blk) ==
    IF blk = {} THEN <<>>
    ELSE LET x == SetMin(blk) IN <<b[x]>> \o BlockEntries(b, blk \ {x})

\* The blocks of a partition, ordered by their first position.
RECURSIVE PartitionBlocks(_, _)
PartitionBlocks(b, part) ==
    IF part = {} THEN <<>>
    ELSE LET blk == CHOOSE c \in part : \A e \in part : SetMin(c) <= SetMin(e)
         IN  <<BlockEntries(b, blk)>> \o PartitionBlocks(b, part \ {blk})

RECURSIVE SetToSeq(_)
SetToSeq(S) ==
    IF S = {} THEN <<>>
    ELSE LET x == CHOOSE z \in S : TRUE IN <<x>> \o SetToSeq(S \ {x})

\* The set partitions of 1..m, in a fixed order, for every length m of a multi-index.
PartitionTable == [m \in 0..MaxOrder |-> SetToSeq(PartitionsOf(1..m))]

generate_set_partitions(b) ==
    LET parts == PartitionTable[Len(b)]
    IN  Array([j \in 1..Len(parts) |-> PartitionBlocks(b, parts[j])])

(***************************************************************************)
(* _compute_dy_dtau                                                        *)
(***************************************************************************)
\* non_zero_idxs = (r2l2 != 0)
NonZeroR2L2(r2l2) == Array([i \in 1..Len(r2l2) |-> r2l2[i] # R0])

\* for p in deriv_partitions: dy_dtau[non_zero_idxs] += ...   (from partition j on)
\* tsel = tau[non_zero_idxs], rsel = r2l2[non_zero_idxs]
RECURSIVE PartitionLoop(_, _, _, _, _, _, _)
PartitionLoop(dy_dtau, P, tsel, rsel, mask, parts, j) ==
    IF j > Len(parts) THEN [val |-> dy_dtau, exc |-> "none"]
    ELSE LET term == _compute_dy_dtau_on_partition(P, tsel, parts[j], rsel)
             cur == Compress(dy_dtau, mask)
         IN  IF term.exc # "none" THEN [val |-> <<>>, exc |-> term.exc]
             ELSE PartitionLoop(
                      Scatter(dy_dtau, mask,
                              Array([i \in 1..Len(cur) |-> VAdd(cur[i], term.val[i])])),
                      P, tsel, rsel, mask, parts, j + 1)

\* derivs = zeros(N); for d in b: derivs[d] += 1
DerivCounts(b) ==
    Array([d \in 1..NumDim |-> Cardinality({i \in 1..Len(b) : b[i] = d - 1})])

\* mpmath.chop(mpmath.diff(self._compute_y_wrapper, zeros(N), n=derivs, singular=True, direction=1))
MpmathDiffY(P, derivs) ==
    VSym(Sym("mpdiff_y", Nu(P), {}, R0, derivs,
             Array([d \in 1..NumDim |-> At(P, LOffset + d - 1)])))

_compute_dy_dtau(P, tau, b, r2l2) ==
    LET deriv_partitions == generate_set_partitions(b)
        non_zero_idxs == NonZeroR2L2(r2l2)
        looped == PartitionLoop(Zeros(Len(r2l2)), P, Compress(tau, non_zero_idxs),
                                Compress(r2l2, non_zero_idxs), non_zero_idxs,
                                deriv_partitions, 1)
    IN  IF looped.exc # "none"
        THEN [val |-> <<>>, warn |-> <<>>, mp |-> <<>>, exc |-> looped.exc]
        ELSE [val |-> Fill(looped.val, Not(non_zero_idxs), MpmathDiffY(P, DerivCounts(b))),
              warn |-> <<>>,
              mp |-> <<"mpdiff_y">>,
              exc |-> "none"]

(***************************************************************************)
(* The kernel object and the calls made on it.  params is fixed at         *)
(* construction; every other variable records the last call: the method   *)
(* (op), the batch tau the caller evaluates at, the arrays y and r2l2 the  *)
(* caller derived from it and passed in, the order n or the multi-index b, *)
(* the returned array, the exception raised, the warnings emitted and the  *)
(* mpmath.diff calls made.  Calls are synchronous: one is made only after  *)
(* the previous one has returned.                                          *)
(***************************************************************************)
VARIABLES interpreter, registry, params, op, tau, y, r2l2, n, b, out, exc,
          warnings, mpcalls

vars == <<interpreter, registry, params, op, tau, y, r2l2, n, b, out, exc,
          warnings, mpcalls>>

NuVals == {<<k, 2>> : k \in {j \in 1..MaxNu2 : j % 2 = 1}} \cup
          {<<k \div 2, 1>> : k \in {j \in 1..MaxNu2 : j % 2 = 0}}
ParamVectors ==
    {<<R1, nu>> \o [d \in 1..NumDim |-> RInt(l[d])] : nu \in NuVals, l \in LVecs}
Rows == {row \in TauRows : Len(row) = NumDim}
Batches == UNION {[1..m -> Rows] : m \in 0..MaxRows}
Dims == 0..(NumDim - 1)
MultiIndices == UNION {[1..m -> Dims] : m \in 0..MaxOrder}
Blocks == UNION {[1..m -> Dims] : m \in 0..MaxBlock}

Init ==
    /\ interpreter \in Interpreters
    /\ registry = {}
    /\ params \in ParamVectors
    /\ op = "none"
    /\ tau = <<>>
    /\ y = <<>>
    /\ r2l2 = <<>>
    /\ n = 0
    /\ b = <<>>
    /\ out = <<>>
    /\ exc = "none"
    /\ warnings = <<>>
    /\ mpcalls = <<>>

Compute_k ==
    \E t \in Batches :
        LET r == _compute_k(registry, params, t)
        IN  /\ op = "none"
            /\ op' = "_compute_k"
            /\ tau' = t
            /\ y' = <<>>
            /\ r2l2' = <<>>
            /\ n' = 0
            /\ b' = <<>>
            /\ out' = r.val
            /\ exc' = "none"
            /\ warnings' = r.warn
            /\ mpcalls' = <<>>
            /\ registry' = r.reg
            /\ UNCHANGED <<interpreter, params>>

Compute_dk_dy ==
    \E t \in Batches, order \in 0..MaxN :
        LET yy == _compute_y(params, t)
            r == _compute_dk_dy(interpreter, registry, params, yy, order)
        IN  /\ op = "none"
            /\ op' = "_compute_dk_dy"
            /\ tau' = t
            /\ y' = yy
            /\ r2l2' = <<>>
            /\ n' = order
            /\ b' = <<>>
            /\ out' = r.val
            /\ exc' = r.exc
            /\ warnings' = r.warn
            /\ mpcalls' = r.mp
            /\ registry' = r.reg
            /\ UNCHANGED <<interpreter, params>>

Compute_dy_dtau ==
    \E t \in Batches, idx \in MultiIndices :
        LET rr == _compute_r2l2(params, t)
            r == _compute_dy_dtau(params, t, idx, rr)
        IN  /\ op = "none"
            /\ op' = "_compute_dy_dtau"
            /\ tau' = t
            /\ y' = <<>>
            /\ r2l2' = rr
            /\ n' = 0
            /\ b' = idx
            /\ out' = r.val
            /\ exc' = r.exc
            /\ warnings' = r.warn
            /\ mpcalls' = r.mp
            /\ UNCHANGED <<interpreter, registry, params>>

Compute_dT_dtau ==
    \E t \in Batches, blk \in Blocks :
        LET r == _compute_dT_dtau(params, t, blk)
        IN  /\ op = "none"
            /\ op' = "_compute_dT_dtau"
            /\ tau' = t
            /\ y' = <<>>
            /\ r2l2' = <<>>
            /\ n' = 0
            /\ b' = blk
            /\ out' = r.val
            /\ exc' = r.exc
            /\ warnings' = <<>>
            /\ mpcalls' = <<>>
            /\ UNCHANGED <<interpreter, registry, params>>

\* The caller takes the result; the arrays of the call are transient.  The
\* warning registry belongs to the module and outlives the call.
Return ==
    /\ op # "none"
    /\ op' = "none"
    /\ tau' = <<>>
    /\ y' = <<>>
    /\ r2l2' = <<>>
    /\ n' = 0
    /\ b' = <<>>
    /\ out' = <<>>
    /\ exc' = "none"
    /\ warnings' = <<>>
    /\ mpcalls' = <<>>
    /\ UNCHANGED <<interpreter, registry, params>>

Next == Compute_k \/ Compute_dk_dy \/ Compute_dy_dtau \/ Compute_dT_dtau \/ Return

Spec == Init /\ [][Next]_vars

\* The value and outer-derivative evaluators alone.
NextOuter == Compute_k \/ Compute_dk_dy \/ Return

SpecOuter == Init /\ [][NextOuter]_vars

\* The inner-derivative evaluator and the distance-derivative primitive alone.
NextInner == Compute_dy_dtau \/ Compute_dT_dtau \/ Return

SpecInner == Init /\ [][NextInner]_vars

(***************************************************************************)
(* Properties.                                                             *)
(***************************************************************************)
RowIdx == 1..Len(tau)
IsOrigin(row) == \A d \in 1..NumDim : row[d] = 0
NuNow == At(params, NuIndex)
\* n < 2 nu and n >= 2 nu on the integers n, numerator and denominator of nu.
BelowTwoNu == n * NuNow[2] < 2 * NuNow[1]
Kinds(v) == {m.sym.kind : m \in v}
Returned == exc = "none" /\ Len(out) = Len(tau)

\* C1: _compute_k returns exactly 1 at every row whose difference vector is the
\* origin, whatever the other rows of the batch are.
C1_OriginIsOne ==
    op = "_compute_k" =>
        /\ Returned
        /\ \A i \in RowIdx : IsOrigin(tau[i]) => out[i] = VOne

C1_Witness ==
    /\ op = "_compute_k"
    /\ \E i, j \in RowIdx : IsOrigin(tau[i]) /\ ~IsOrigin(tau[j]) /\ out[i] = VOne

\* C2: for odd n < 2 nu, _compute_dk_dy returns exactly 0 at every row with y = 0,
\* the final multiplication by 2^(1-nu)/Gamma(nu) included.
C2_OddOrderIsZero ==
    (op = "_compute_dk_dy" /\ n % 2 = 1 /\ BelowTwoNu) =>
        /\ Returned
        /\ \A i \in RowIdx : y[i] = VZero => out[i] = VZero

\* C3: a call of _compute_dk_dy shows the warning exactly when n >= 2 nu, exactly
\* then mpmath.diff is called and supplies the value at the rows with y = 0, and
\* the call returns.
C3_WarnIffFallback ==
    op = "_compute_dk_dy" =>
        /\ Returned
        /\ (warnings # <<>>) <=> ~BelowTwoNu
        /\ (warnings # <<>>) <=> (mpcalls = <<"mpdiff_core">>)
        /\ (warnings = <<>>) <=> (mpcalls = <<>>)
        /\ warnings \in {<<>>, <<"RuntimeWarning">>}
        /\ \A i \in RowIdx : y[i] = VZero =>
              IF warnings # <<>> THEN Kinds(out[i]) = {"mpdiff_core"}
              ELSE Kinds(out[i]) \subseteq {"one"}

\* C4: in _compute_k, _compute_dk_dy and _compute_dy_dtau a singular row gets its
\* returned value from the dedicated branch (1, the closed form at 0, or
\* mpmath.diff) and a non-singular row from the closed-form expansion; no singular
\* row returns an infinity or a NaN, and no call fails because a row is singular:
\* a call that raises raises the same on the batch without its singular rows.
C4_NonSingular == SelectSeq(y, LAMBDA v : v # VZero)

C4_SingularRowsHandled ==
    /\ op = "_compute_k" =>
          /\ Returned
          /\ \A i \in RowIdx :
                IF IsOrigin(tau[i]) THEN out[i] = VOne
                ELSE Kinds(out[i]) = {"ypow_kvp"}
    /\ op = "_compute_dk_dy" =>
          /\ exc = "none" =>
                /\ Len(out) = Len(tau)
                /\ \A i \in RowIdx :
                      IF y[i] = VZero
                      THEN IF BelowTwoNu THEN Kinds(out[i]) \subseteq {"one"}
                           ELSE Kinds(out[i]) = {"mpdiff_core"}
                      ELSE Kinds(out[i]) = {"ypow_kvp"}
          /\ exc # "none" =>
                _compute_dk_dy(interpreter, registry, params, C4_NonSingular, n).exc = exc
    /\ op = "_compute_dy_dtau" =>
          /\ Returned
          /\ \A i \in RowIdx :
                IF r2l2[i] = R0 THEN Kinds(out[i]) = {"mpdiff_y"}
                ELSE Kinds(out[i]) \subseteq {"one"}

C4_Witness ==
    /\ op = "_compute_dk_dy" /\ n >= 1 /\ Returned
    /\ \E i, j \in RowIdx :
          /\ y[i] = VZero /\ IsFinite(out[i])
          /\ y[j] # VZero /\ Kinds(out[j]) = {"ypow_kvp"}

\* C5: for a non-empty block, _compute_dT_dtau returns per row 0 if the block has
\* three or more entries or names two distinct dimensions, 2 tau_d / l_d^2 if it
\* is <<d>> and 2 / l_d^2 if it is <<d, d>>, l_d the hyperparameter at index 2 + d.
C5_Expected(row) ==
    LET d == b[1]
        l == params[3 + d]
    IN  IF Len(b) >= 3 \/ (\E j, k \in 1..Len(b) : b[j] # b[k]) THEN VZero
        ELSE IF Len(b) = 1 THEN VNum(RNorm(2 * row[d + 1] * l[2] * l[2], l[1] * l[1]))
        ELSE VNum(RNorm(2 * l[2] * l[2], l[1] * l[1]))

C5_DistancePrimitive ==
    (op = "_compute_dT_dtau" /\ Len(b) >= 1) =>
        /\ Returned
        /\ \A i \in RowIdx : out[i] = C5_Expected(tau[i])

C5_Witness ==
    /\ op = "_compute_dT_dtau" /\ Len(b) = 2 /\ b[1] = b[2]
    /\ \E i \in RowIdx : tau[i][b[1] + 1] # 0 /\ out[i] # VZero

\* C6: rows are independent: at every row, _compute_k, _compute_dk_dy and
\* _compute_dy_dtau do what they do on the batch made of that row alone: they
\* return the same value at the row, or raise the same exception.
C6_RowAlone(i) ==
    IF op = "_compute_k"
    THEN [val |-> _compute_k(registry, params, <<tau[i]>>).val, exc |-> "none"]
    ELSE IF op = "_compute_dk_dy"
    THEN _compute_dk_dy(interpreter, registry, params, <<y[i]>>, n)
    ELSE _compute_dy_dtau(params, <<tau[i]>>, b, <<r2l2[i]>>)

C6_RowsIndependent ==
    op \in {"_compute_k", "_compute_dk_dy", "_compute_dy_dtau"} =>
        /\ exc = "none" => Len(out) = Len(tau)
        /\ \A i \in RowIdx :
              LET alone == C6_RowAlone(i)
              IN  /\ alone.exc = exc
                  /\ exc = "none" => out[i] = alone.val[1]

C6_Witness ==
    /\ op = "_compute_dy_dtau" /\ Len(b) >= 1 /\ Len(tau) >= 2
    /\ r2l2[1] = R0 /\ r2l2[2] # R0
    /\ out[1] # out[2] /\ out[2] # VZero

\* C7: at every row with r2l2 /= 0, _compute_dy_dtau returns the sum, over the set
\* partitions of b each taken once, of
\*   sqrt(2 nu) * poch(1 - n_p + 0.5, n_p) * r2l2^(-n_p + 0.5) * prod_blocks dT(block),
\* n_p the number of blocks.
C7_BlockProduct(row, blocks) ==
    LET F[k \in 0..Len(blocks)] ==
            IF k = 0 THEN VOne
            ELSE VMul(F[k - 1], _compute_dT_dtau(params, <<row>>, blocks[k]).val[1])
    IN  F[Len(blocks)]

C7_Term(row, r, part) ==
    LET np == Cardinality(part)
    IN  VMul(VMul(VMul(VSqrt(RMul(RInt(2), NuNow)),
                       VNum(Poch(RAdd(RInt(1 - np), <<1, 2>>), np))),
                  VMul(VNum(RPow(r, -np)), VSqrt(r))),
             C7_BlockProduct(row, PartitionBlocks(b, part)))

RECURSIVE C7_Sum(_, _, _)
C7_Sum(row, r, parts) ==
    IF parts = {} THEN VZero
    ELSE LET part == CHOOSE q \in parts : TRUE
         IN  VAdd(C7_Term(row, r, part), C7_Sum(row, r, parts \ {part}))

C7_FaaDiBruno ==
    op = "_compute_dy_dtau" =>
        /\ Returned
        /\ \A i \in RowIdx :
              r2l2[i] # R0 => out[i] = C7_Sum(tau[i], r2l2[i], PartitionsOf(1..Len(b)))

C7_Witness ==
    /\ op = "_compute_dy_dtau" /\ Len(b) = MaxOrder
    /\ \E i \in RowIdx : r2l2[i] # R0 /\ out[i] # VZero

\* C8: for even n < 2 nu, m = n / 2, _compute_dk_dy returns at every row with y = 0
\*   (-1)^m * 2^(-n) * (Gamma(nu - m) / Gamma(nu)) * n! / m!,
\* where Gamma(nu - m) / Gamma(nu) = 1 / ((nu - 1) (nu - 2) ... (nu - m)).
RECURSIVE C8_Falling(_, _)
C8_Falling(nu, m) ==
    IF m = 0 THEN R1 ELSE RMul(C8_Falling(nu, m - 1), RSub(nu, RInt(m)))

C8_Expected ==
    LET m == n \div 2
        sign == IF m % 2 = 0 THEN 1 ELSE -1
    IN  VNum(RDiv(RNorm(sign * Factorial(n), Factorial(m) * (2 ^ n)),
                  C8_Falling(NuNow, m)))

C8_EvenOrderClosedForm ==
    (op = "_compute_dk_dy" /\ n % 2 = 0 /\ BelowTwoNu) =>
        /\ Returned
        /\ \A i \in RowIdx : y[i] = VZero => out[i] = C8_Expected

\* C9: _compute_dy_dtau depends on b only as a multiset: every rearrangement of b
\* gives the same array, and a singular row holds the result of mpmath.diff for
\* the per-dimension occurrence counts of b, which sum to Len(b).
Count(idx, d) == Cardinality({k \in 1..Len(idx) : idx[k] = d})
Rearrangements(idx) ==
    {c \in [1..Len(idx) -> Dims] : \A d \in Dims : Count(c, d) = Count(idx, d)}

RECURSIVE SeqSum(_)
SeqSum(q) == IF Len(q) = 0 THEN 0 ELSE Head(q) + SeqSum(Tail(q))

C9_MultisetOnly ==
    op = "_compute_dy_dtau" =>
        /\ Returned
        /\ \A c \in Rearrangements(b) : _compute_dy_dtau(params, tau, c, r2l2).val = out
        /\ \A i \in RowIdx : r2l2[i] = R0 =>
              \E m \in out[i] :
                  /\ out[i] = {m}
                  /\ m.sym.kind = "mpdiff_y"
                  /\ \A d \in Dims : m.sym.ord[d + 1] = Count(b, d)
                  /\ SeqSum(m.sym.ord) = Len(b)

C9_Witness ==
    /\ op = "_compute_dy_dtau" /\ Len(b) = 2 /\ b[1] # b[2]
    /\ \E i, j \in RowIdx : r2l2[i] = R0 /\ r2l2[j] # R0 /\ IsOrigin(tau[i])

\* C10: at n = 0, _compute_dk_dy agrees with _compute_k on every row: the single
\* Leibniz term 2^(1-nu)/Gamma(nu) * y^nu * K_nu(y) at the rows with y /= 0, and
\* 1 from the closed form, without warning, at the rows with y = 0.
C10_OrderZeroIsValue ==
    (op = "_compute_dk_dy" /\ n = 0) =>
        /\ Returned
        /\ out = _compute_k(registry, params, tau).val
        /\ warnings = <<>> /\ mpcalls = <<>>
        /\ \A i \in RowIdx :
              IF y[i] = VZero THEN out[i] = VOne
              ELSE out[i] = VMul(VDiv(Pow2(RSub(R1, NuNow)), Gamma(NuNow)),
                                 VSym(Sym("ypow_kvp", NuNow, y[i], NuNow, <<0>>, <<>>)))

(***************************************************************************)
(* The outer-derivative evaluator where xrange resolves (Python 2): the     *)
(* values of C2, C8 and C10 are the ones returned, mpmath.diff is called   *)
(* exactly for n >= 2 nu, and the warning is shown by the first such call   *)
(* of the process only.                                                    *)
(***************************************************************************)
XRange_OddOrderIsZero == interpreter = "python2" => C2_OddOrderIsZero

XRange_EvenOrderClosedForm == interpreter = "python2" => C8_EvenOrderClosedForm

XRange_OrderZeroIsValue == interpreter = "python2" => C10_OrderZeroIsValue

XRange_FallbackIffDegenerate ==
    (interpreter = "python2" /\ op = "_compute_dk_dy") =>
        /\ Returned
        /\ (mpcalls = <<"mpdiff_core">>) <=> ~BelowTwoNu
        /\ (mpcalls = <<>>) <=> BelowTwoNu
        /\ warnings # <<>> => (warnings = <<"RuntimeWarning">> /\ ~BelowTwoNu)
        /\ ~BelowTwoNu => WarningText \in registry
        /\ \A i \in RowIdx : y[i] = VZero =>
              IF BelowTwoNu THEN Kinds(out[i]) \subseteq {"one"}
              ELSE Kinds(out[i]) = {"mpdiff_core"}

XRange_WarningShownOnce ==
    [][(op' = "_compute_dk_dy" /\ WarningText \in registry) => (warnings' = <<>>)]_vars

\* _compute_k shows numpy's invalid-value warning for a batch with a row at the
\* origin, the first time in the process, and for no other batch.
InvalidValueWarning ==
    op = "_compute_k" =>
        /\ warnings # <<>> => (\E i \in RowIdx : IsOrigin(tau[i]))
        /\ (\E i \in RowIdx : IsOrigin(tau[i])) => InvalidText \in registry

XRange_PythonThreeRaises ==
    (interpreter = "python3" /\ op = "_compute_dk_dy") =>
        exc = "NameError" /\ out = <<>> /\ warnings = <<>> /\ mpcalls = <<>>

====
